---- MODULE Spec2Model ----
(***************************************************************************)
(* Model of src/src/index.ts: the SnowflakeMCPServer class.  The state is  *)
(* the object's fields (config, connection), the handlers registered on    *)
(* the protocol server, the Connection objects the driver has created, and *)
(* the requests being handled, each with the place its handler has reached *)
(* (handlers are async functions: one step per stretch of code between two *)
(* awaits).                                                                *)
(*                                                                         *)
(* Strings are sequences of one-character strings, so that trim,           *)
(* toUpperCase, startsWith and template interpolation are computed.        *)
(***************************************************************************)
EXTENDS Integers, Sequences, FiniteSets, TLC

\* The largest number of requests being handled at the same time.
MaxCalls == 2

(***************************************************************************)
(* String literals of the source and of the requests tried.                *)
(***************************************************************************)
S_read_query == <<"r", "e", "a", "d", "_", "q", "u", "e", "r", "y">>
S_list_databases == <<"l", "i", "s", "t", "_", "d", "a", "t", "a", "b", "a", "s", "e", "s">>
S_list_schemas == <<"l", "i", "s", "t", "_", "s", "c", "h", "e", "m", "a", "s">>
S_list_tables == <<"l", "i", "s", "t", "_", "t", "a", "b", "l", "e", "s">>
S_describe_table == <<"d", "e", "s", "c", "r", "i", "b", "e", "_", "t", "a", "b", "l", "e">>
S_drop_table == <<"d", "r", "o", "p", "_", "t", "a", "b", "l", "e">>
URI_databases == <<"s", "n", "o", "w", "f", "l", "a", "k", "e", ":", "/", "/", "d", "a", "t", "a", "b", "a", "s", "e", "s">>
URI_schemas == <<"s", "n", "o", "w", "f", "l", "a", "k", "e", ":", "/", "/", "s", "c", "h", "e", "m", "a", "s">>
URI_tables == <<"s", "n", "o", "w", "f", "l", "a", "k", "e", ":", "/", "/", "t", "a", "b", "l", "e", "s">>
URI_users == <<"s", "n", "o", "w", "f", "l", "a", "k", "e", ":", "/", "/", "u", "s", "e", "r", "s">>
S_SELECT == <<"S", "E", "L", "E", "C", "T">>
S_select == <<"s", "e", "l", "e", "c", "t">>
S_SHOW_DATABASES == <<"S", "H", "O", "W", " ", "D", "A", "T", "A", "B", "A", "S", "E", "S">>
S_SHOW_SCHEMAS == <<"S", "H", "O", "W", " ", "S", "C", "H", "E", "M", "A", "S">>
S_SHOW_SCHEMAS_IN_DATABASE_ == <<"S", "H", "O", "W", " ", "S", "C", "H", "E", "M", "A", "S", " ", "I", "N", " ", "D", "A", "T", "A", "B", "A", "S", "E", " ">>
S_SHOW_TABLES == <<"S", "H", "O", "W", " ", "T", "A", "B", "L", "E", "S">>
S_SHOW_TABLES_IN_ == <<"S", "H", "O", "W", " ", "T", "A", "B", "L", "E", "S", " ", "I", "N", " ">>
S_SHOW_TABLES_IN_SCHEMA_ == <<"S", "H", "O", "W", " ", "T", "A", "B", "L", "E", "S", " ", "I", "N", " ", "S", "C", "H", "E", "M", "A", " ">>
S_SHOW_TABLES_IN_DATABASE_ == <<"S", "H", "O", "W", " ", "T", "A", "B", "L", "E", "S", " ", "I", "N", " ", "D", "A", "T", "A", "B", "A", "S", "E", " ">>
S_DESCRIBE_TABLE_ == <<"D", "E", "S", "C", "R", "I", "B", "E", " ", "T", "A", "B", "L", "E", " ">>
S_dot == <<".">>
S_undefined == <<"u", "n", "d", "e", "f", "i", "n", "e", "d">>
MSG_OnlySelect == <<"O", "n", "l", "y", " ", "S", "E", "L", "E", "C", "T", " ", "q", "u", "e", "r", "i", "e", "s", " ", "a", "r", "e", " ", "a", "l", "l", "o", "w", "e", "d">>
MSG_UnknownTool_ == <<"U", "n", "k", "n", "o", "w", "n", " ", "t", "o", "o", "l", ":", " ">>
MSG_UnknownResource_ == <<"U", "n", "k", "n", "o", "w", "n", " ", "r", "e", "s", "o", "u", "r", "c", "e", ":", " ">>
MSG_ToolFailed_ == <<"T", "o", "o", "l", " ", "e", "x", "e", "c", "u", "t", "i", "o", "n", " ", "f", "a", "i", "l", "e", "d", ":", " ">>
MSG_ResourceFailed_ == <<"F", "a", "i", "l", "e", "d", " ", "t", "o", " ", "r", "e", "a", "d", " ", "r", "e", "s", "o", "u", "r", "c", "e", ":", " ">>
MSG_TrimOfUndefined == <<"C", "a", "n", "n", "o", "t", " ", "r", "e", "a", "d", " ", "p", "r", "o", "p", "e", "r", "t", "i", "e", "s", " ", "o", "f", " ", "u", "n", "d", "e", "f", "i", "n", "e", "d", " ", "(", "r", "e", "a", "d", "i", "n", "g", " ", "'", "t", "r", "i", "m", "'", ")">>
Q_select1 == <<"s", "e", "l", "e", "c", "t", " ", "1">>
Q_SeLeCt_ws == <<"\t", " ", "S", "e", "L", "e", "C", "t", " ", "1", " ", "\n">>
Q_delete == <<"D", "E", "L", "E", "T", "E", " ", "F", "R", "O", "M", " ", "t">>
Q_sel_ws == <<" ", "s", "e", "l", "e", "c">>
V_A == <<"A">>
V_B == <<"B">>
V_X == <<"X">>
V_DB_SCH_TBL == <<"D", "B", ".", "S", "C", "H", ".", "T", "B", "L">>
V_acct == <<"a", "c", "c", "t">>
V_user == <<"u", "s", "e", "r">>
V_pw == <<"p", "w">>
ERR_Network == <<"N", "e", "t", "w", "o", "r", "k", " ", "e", "r", "r", "o", "r">>
ERR_Sql == <<"S", "Q", "L", " ", "c", "o", "m", "p", "i", "l", "a", "t", "i", "o", "n", " ", "e", "r", "r", "o", "r">>
JSON_empty == <<"[", "]">>
JSON_open == <<"[", "\n", " ", " ">>
JSON_sep == <<",", "\n", " ", " ">>
JSON_close == <<"\n", "]">>
JSON_row == <<"{", "\n", " ", " ", " ", " ", "\"", "N", "\"", ":", " ", "1", "\n", " ", " ", "}">>

\* JavaScript's undefined (also standing for null): a value that is no string,
\* since its only element is not a single character.
Undefined == <<"undefined">>

(***************************************************************************)
(* JavaScript string and value operations used by the source.              *)
(***************************************************************************)
WhiteSpace == {" ", "\t", "\n"}

LowerCase == <<"a", "b", "c", "d", "e", "f", "g", "h", "i", "j", "k", "l", "m", "n", "o", "p", "q", "r", "s", "t", "u", "v", "w", "x", "y", "z">>

UpperCase == <<"A", "B", "C", "D", "E", "F", "G", "H", "I", "J", "K", "L", "M", "N", "O", "P", "Q", "R", "S", "T", "U", "V", "W", "X", "Y", "Z">>

RECURSIVE trimStart(_)
trimStart(s) ==
  IF s # <<>> /\ Head(s) \in WhiteSpace THEN trimStart(Tail(s)) ELSE s

RECURSIVE trimEnd(_)
trimEnd(s) ==
  IF s # <<>> /\ s[Len(s)] \in WhiteSpace THEN trimEnd(SubSeq(s, 1, Len(s) - 1)) ELSE s

\* String.prototype.trim
trim(s) == trimEnd(trimStart(s))

toUpperChar(c) ==
  IF \E k \in 1..26 : LowerCase[k] = c
  THEN UpperCase[CHOOSE k \in 1..26 : LowerCase[k] = c]
  ELSE c

\* String.prototype.toUpperCase (t is s, evaluated once).
toUpperCase(s) ==
  LET upper[t \in {s}] == [k \in 1..Len(t) |-> toUpperChar(t[k])]
  IN upper[s]

\* String.prototype.startsWith
startsWith(s, prefix) ==
  /\ Len(s) >= Len(prefix)
  /\ SubSeq(s, 1, Len(prefix)) = prefix

\* Truthiness of a string-or-undefined value: undefined and '' are falsy.
Truthy(v) == v # Undefined /\ v # <<>>

\* a || b
OrElse(a, b) == IF Truthy(a) THEN a ELSE b

\* `${v}` in a template literal.
Interpolate(v) == IF v = Undefined THEN S_undefined ELSE v

RECURSIVE JoinRows(_)
JoinRows(rows) ==
  IF Len(rows) = 1 THEN JSON_row ELSE JSON_row \o JSON_sep \o JoinRows(Tail(rows))

\* JSON.stringify(rows, null, 2) of an array of row objects, each {"N": 1}.
JSONstringify(rows) ==
  IF rows = <<>> THEN JSON_empty ELSE JSON_open \o JoinRows(rows) \o JSON_close

(***************************************************************************)
(* Configuration: loadConfig.                                              *)
(***************************************************************************)
EnvOf(account, user, username, password) ==
  [SNOWFLAKE_ACCOUNT |-> account, SNOWFLAKE_USER |-> user,
   SNOWFLAKE_USERNAME |-> username, SNOWFLAKE_PASSWORD |-> password,
   SNOWFLAKE_WAREHOUSE |-> Undefined, SNOWFLAKE_DATABASE |-> Undefined,
   SNOWFLAKE_SCHEMA |-> Undefined, SNOWFLAKE_ROLE |-> Undefined]

\* The environments the process is started in.
Environments ==
  { EnvOf(V_acct, V_user, Undefined, V_pw),
    EnvOf(V_acct, Undefined, V_user, V_pw),
    EnvOf(Undefined, V_user, Undefined, V_pw),
    EnvOf(<<>>, V_user, V_user, V_pw),
    EnvOf(V_acct, Undefined, Undefined, V_pw),
    EnvOf(V_acct, <<>>, <<>>, V_pw),
    EnvOf(V_acct, V_user, Undefined, Undefined),
    EnvOf(V_acct, Undefined, V_user, <<>>) }

NoConfig ==
  [account |-> Undefined, username |-> Undefined, password |-> Undefined,
   warehouse |-> Undefined, database |-> Undefined, schema |-> Undefined,
   role |-> Undefined]

\* The record loadConfig builds from process.env.
configOf(e) ==
  [account |-> OrElse(e.SNOWFLAKE_ACCOUNT, <<>>),
   username |-> OrElse(e.SNOWFLAKE_USER, OrElse(e.SNOWFLAKE_USERNAME, <<>>)),
   password |-> OrElse(e.SNOWFLAKE_PASSWORD, <<>>),
   warehouse |-> e.SNOWFLAKE_WAREHOUSE, database |-> e.SNOWFLAKE_DATABASE,
   schema |-> e.SNOWFLAKE_SCHEMA, role |-> e.SNOWFLAKE_ROLE]

\* A validation that forgets the password.
loadConfigThrowsNoPassword(c) == ~Truthy(c.account) \/ ~Truthy(c.username)

\* The validation of the required fields: TRUE when loadConfig throws.
loadConfigThrows(c) ==
  ~Truthy(c.account) \/ ~Truthy(c.username) \/ ~Truthy(c.password)

\* The request schemas setupHandlers registers a handler for.
setupHandlers == {"resources/list", "resources/read", "tools/list", "tools/call"}

(***************************************************************************)
(* Requests: the tool calls and resource reads a client sends.             *)
(***************************************************************************)
NoArgs ==
  [query |-> Undefined, database |-> Undefined, schema |-> Undefined,
   table_name |-> Undefined]

ToolRequest(name, args) == [method |-> "tools/call", name |-> name, args |-> args]

ResourceRequest(uri) == [method |-> "resources/read", name |-> uri, args |-> NoArgs]

Queries == {Undefined, Q_select1, Q_SeLeCt_ws, Q_delete, Q_sel_ws}

DatabaseArgs == {Undefined, <<>>, V_A}

SchemaArgs == {Undefined, <<>>, V_B}

TableNameArgs == {Undefined, V_DB_SCH_TBL}

ToolRequests ==
  {ToolRequest(S_read_query, [NoArgs EXCEPT !.query = q]) : q \in Queries}
    \cup {ToolRequest(S_list_databases, NoArgs), ToolRequest(S_drop_table, NoArgs)}
    \cup {ToolRequest(S_list_schemas, [NoArgs EXCEPT !.database = d]) : d \in DatabaseArgs}
    \cup {ToolRequest(S_list_tables, [NoArgs EXCEPT !.database = d, !.schema = s]) :
            d \in DatabaseArgs, s \in SchemaArgs}
    \cup {ToolRequest(S_describe_table, [NoArgs EXCEPT !.table_name = t]) : t \in TableNameArgs}

\* A read of a resource that carries the arguments of a tool beside its uri.
ResourceRequestWith(uri, args) == [method |-> "resources/read", name |-> uri, args |-> args]

ResourceRequests ==
  {ResourceRequest(u) : u \in {URI_databases, URI_schemas, URI_tables, URI_users}}
    \cup {ResourceRequestWith(u, [NoArgs EXCEPT !.database = V_A, !.schema = V_B]) :
            u \in {URI_schemas, URI_tables}}

\* The requests of clients that do not wait for an answer before they send the
\* next request: one request of each kind of outcome.
ConcurrentToolRequests ==
  {ToolRequest(S_read_query, [NoArgs EXCEPT !.query = q]) :
     q \in {Q_select1, Q_SeLeCt_ws, Q_delete}}
    \cup {ToolRequest(S_list_databases, NoArgs), ToolRequest(S_drop_table, NoArgs)}

ConcurrentResourceRequests == {ResourceRequest(URI_tables), ResourceRequest(URI_users)}

(***************************************************************************)
(* Routing: what the code between `await this.connect()` and the call of   *)
(* executeQuery does with a request: it throws, or it has an SQL text.     *)
(***************************************************************************)
Throw(code, message) ==
  [throws |-> TRUE, code |-> code, message |-> message, sqlText |-> Undefined]

Execute(sqlText) ==
  [throws |-> FALSE, code |-> "", message |-> <<>>, sqlText |-> sqlText]

\* A check that lets every text through.
isSelectAlways(query) == TRUE

\* read_query's check of the query text.
isSelect(query) == startsWith(toUpperCase(trim(query)), S_SELECT)

\* Passing on the trimmed text instead of the caller's.
readQuerySqlTrimmed(query) == trim(query)

\* The text read_query passes to executeQuery.
readQuerySql(query) == query

readQuery(args) ==
  IF args.query = Undefined
  THEN Throw("TypeError", MSG_TrimOfUndefined)
  ELSE IF ~isSelect(args.query)
       THEN Throw("Error", MSG_OnlySelect)
       ELSE Execute(readQuerySql(args.query))

\* A list_schemas that ignores its database argument.
listSchemasSqlPlain(args) == S_SHOW_SCHEMAS

listSchemasSql(args) ==
  IF Truthy(args.database)
  THEN S_SHOW_SCHEMAS_IN_DATABASE_ \o Interpolate(args.database)
  ELSE S_SHOW_SCHEMAS

\* A list_tables that looks at the schema before it looks at both.
listTablesSqlSchemaFirst(args) ==
  IF Truthy(args.schema)
  THEN S_SHOW_TABLES_IN_SCHEMA_ \o Interpolate(args.schema)
  ELSE IF Truthy(args.database)
       THEN S_SHOW_TABLES_IN_DATABASE_ \o Interpolate(args.database)
       ELSE S_SHOW_TABLES

listTablesSql(args) ==
  IF Truthy(args.database) /\ Truthy(args.schema)
  THEN S_SHOW_TABLES_IN_ \o Interpolate(args.database) \o S_dot \o Interpolate(args.schema)
  ELSE IF Truthy(args.schema)
       THEN S_SHOW_TABLES_IN_SCHEMA_ \o Interpolate(args.schema)
       ELSE IF Truthy(args.database)
            THEN S_SHOW_TABLES_IN_DATABASE_ \o Interpolate(args.database)
            ELSE S_SHOW_TABLES

\* A describe_table that puts the name in double quotes.
describeTableSqlQuoted(args) ==
  S_DESCRIBE_TABLE_ \o <<"\"">> \o Interpolate(args.table_name) \o <<"\"">>

describeTableSql(args) == S_DESCRIBE_TABLE_ \o Interpolate(args.table_name)

\* The switch of the call-tool handler.
callTool(name, args) ==
  CASE name = S_read_query -> readQuery(args)
    [] name = S_list_databases -> Execute(S_SHOW_DATABASES)
    [] name = S_list_schemas -> Execute(listSchemasSql(args))
    [] name = S_list_tables -> Execute(listTablesSql(args))
    [] name = S_describe_table -> Execute(describeTableSql(args))
    [] OTHER -> Throw("MethodNotFound", MSG_UnknownTool_ \o Interpolate(name))

\* A chain of ifs with the statements of schemas and tables exchanged.
readResourceExchanged(uri) ==
  IF uri = URI_databases THEN Execute(S_SHOW_DATABASES)
  ELSE IF uri = URI_schemas THEN Execute(S_SHOW_TABLES)
  ELSE IF uri = URI_tables THEN Execute(S_SHOW_SCHEMAS)
  ELSE Throw("InvalidRequest", MSG_UnknownResource_ \o Interpolate(uri))

\* The chain of ifs of the read-resource handler.
readResource(uri) ==
  IF uri = URI_databases THEN Execute(S_SHOW_DATABASES)
  ELSE IF uri = URI_schemas THEN Execute(S_SHOW_SCHEMAS)
  ELSE IF uri = URI_tables THEN Execute(S_SHOW_TABLES)
  ELSE Throw("InvalidRequest", MSG_UnknownResource_ \o Interpolate(uri))

route(call) ==
  IF call.method = "tools/call" THEN callTool(call.name, call.args) ELSE readResource(call.name)

(***************************************************************************)
(* Responses.                                                              *)
(***************************************************************************)
NoResponse ==
  [kind |-> "none", code |-> "", message |-> <<>>, text |-> <<>>, list |-> <<>>]

Result(rows) ==
  [kind |-> "result", code |-> "", message |-> <<>>, text |-> JSONstringify(rows),
   list |-> <<>>]

\* The resources the list-resources handler returns.
resourceList ==
  <<[uri |-> URI_databases, mimeType |-> "application/json"],
    [uri |-> URI_schemas, mimeType |-> "application/json"],
    [uri |-> URI_tables, mimeType |-> "application/json"]>>

\* A list of tools without describe_table.
toolListShort ==
  <<[name |-> S_read_query, required |-> <<"query">>],
    [name |-> S_list_databases, required |-> <<>>],
    [name |-> S_list_schemas, required |-> <<>>],
    [name |-> S_list_tables, required |-> <<>>]>>

\* The tools the list-tools handler returns, each with the required list of
\* its input schema.
toolList ==
  <<[name |-> S_read_query, required |-> <<"query">>],
    [name |-> S_list_databases, required |-> <<>>],
    [name |-> S_list_schemas, required |-> <<>>],
    [name |-> S_list_tables, required |-> <<>>],
    [name |-> S_describe_table, required |-> <<"table_name">>]>>

\* The response of a list handler.
Listing(list) ==
  [kind |-> "result", code |-> "", message |-> <<>>, text |-> <<>>, list |-> list]

\* A catch block that drops the message of what it caught.
toolFailureMessageBare(message) == MSG_ToolFailed_

\* The message the catch block of the call-tool handler builds.
toolFailureMessage(message) == MSG_ToolFailed_ \o message

\* The message the catch block of the read-resource handler builds.
resourceFailureMessage(message) == MSG_ResourceFailed_ \o message

\* A catch block that answers with an empty result.
catchSwallows(method, message) ==
  [kind |-> "result", code |-> "", message |-> <<>>, text |-> JSON_empty, list |-> <<>>]

\* The catch block of a handler: whatever was thrown, an InternalError.
catch(method, message) ==
  [kind |-> "error", code |-> "InternalError",
   message |-> IF method = "tools/call" THEN toolFailureMessage(message)
               ELSE resourceFailureMessage(message),
   text |-> <<>>, list |-> <<>>]

(***************************************************************************)
(* The driver.                                                             *)
(***************************************************************************)
\* The error argument the driver may give the callback of connect.
ConnectErrors == {Undefined, ERR_Network}

\* The (err, rows) the driver may give the complete callback of execute.
Completions ==
  {[err |-> e, rows |-> r] :
     e \in {Undefined, ERR_Sql}, r \in {Undefined, <<>>, <<"row">>, <<"row", "row">>}}

\* The completions tried when several statements are in flight.
ConcurrentCompletions ==
  {[err |-> ERR_Sql, rows |-> Undefined], [err |-> Undefined, rows |-> Undefined],
   [err |-> Undefined, rows |-> <<"row">>]}

\* A callback that resolves with the rows whatever err is.
completeIgnoresError(o) ==
  [settled |-> TRUE, rejected |-> FALSE, err |-> Undefined,
   rows |-> IF o.rows = Undefined THEN <<>> ELSE o.rows]

\* A callback that does nothing when err is set.
completeForgetsReject(o) ==
  IF o.err # Undefined
  THEN [settled |-> FALSE, rejected |-> FALSE, err |-> Undefined, rows |-> <<>>]
  ELSE [settled |-> TRUE, rejected |-> FALSE, err |-> Undefined,
        rows |-> IF o.rows = Undefined THEN <<>> ELSE o.rows]

\* The complete callback of executeQuery: reject(err) or resolve(rows || []).
\* settled: one of resolve and reject has been called.
complete(o) ==
  IF o.err # Undefined
  THEN [settled |-> TRUE, rejected |-> TRUE, err |-> o.err, rows |-> <<>>]
  ELSE [settled |-> TRUE, rejected |-> FALSE, err |-> Undefined,
        rows |-> IF o.rows = Undefined THEN <<>> ELSE o.rows]

\* this.connection = null
NULL == 0

\* A connect() without its early return.
alreadyConnectedNever(c) == FALSE

\* connect's early return: a connection object is in the slot.
alreadyConnected(c) == c # NULL

\* executeQuery's check before it calls connect.
notConnected(c) == c = NULL

(***************************************************************************)
(* State.                                                                  *)
(***************************************************************************)
VARIABLES
  env,          \* process.env
  phase,        \* "start", "constructed", "running", or "crashed" (the constructor threw)
  config,       \* this.config
  handlers,     \* the request schemas this.server has a handler for
  connection,   \* this.connection: NULL or the index in connections of the object
  connections,  \* the Connection objects snowflake.createConnection has returned
  calls         \* the requests being handled

vars == <<env, phase, config, handlers, connection, connections, calls>>

IdleCall ==
  [pc |-> "idle", method |-> "", name |-> <<>>, args |-> NoArgs,
   attempts |-> 0, conn |-> NULL, sqlText |-> Undefined, submitted |-> <<>>,
   driverErr |-> Undefined, driverRows |-> Undefined, response |-> NoResponse]

\* The fields of a call: pc is the place its handler has reached ("idle": no
\* request in this slot; "awaitConnect": at `await this.connect()` of the
\* handler; "connected": that await is over; "execConnect": at `await
\* this.connect()` of executeQuery; "awaitExec": at the promise of
\* executeQuery; "pending": at that promise, which nothing will settle any
\* more; "done": the handler has returned or thrown).  attempts counts
\* the connections this call created and told to connect, conn is the one its
\* connect() waits for, submitted the statements it gave to execute (with the
\* object in the slot and that object's state at that moment), driverErr and
\* driverRows the err and the rows the driver gave its complete callback.

Init ==
  /\ env \in Environments
  /\ phase = "start"
  /\ config = NoConfig
  /\ handlers = {}
  /\ connection = NULL
  /\ connections = <<>>
  /\ calls = [i \in 1..MaxCalls |-> IdleCall]

(***************************************************************************)
(* Start of the process.                                                   *)
(***************************************************************************)
\* new SnowflakeMCPServer(): loadConfig, then new Server and setupHandlers.
Constructor ==
  /\ phase = "start"
  /\ IF loadConfigThrows(configOf(env))
     THEN /\ phase' = "crashed"
          /\ UNCHANGED <<config, handlers>>
     ELSE /\ config' = configOf(env)
          /\ handlers' = setupHandlers
          /\ phase' = "constructed"
  /\ UNCHANGED <<env, connection, connections, calls>>

\* server.run(): the transport is started.
Run ==
  /\ phase = "constructed"
  /\ phase' = "running"
  /\ UNCHANGED <<env, config, handlers, connection, connections, calls>>

(***************************************************************************)
(* The handlers of call-tool and read-resource.                            *)
(***************************************************************************)
\* connect() up to its await: the object is created, put in the slot and told
\* to connect.
createConnection ==
  /\ connections' = Append(connections, [state |-> "connecting", account |-> config.account])
  /\ connection' = Len(connections) + 1

\* this.connection.execute({sqlText, complete}) by the call c.
submit(c, sqlText, slot, objects) ==
  [c EXCEPT !.pc = "awaitExec", !.sqlText = sqlText,
            !.submitted = Append(@, [sqlText |-> sqlText, conn |-> slot,
                                     state |-> objects[slot].state])]

\* A request arrives and its handler runs to `await this.connect()`.
Receive(i, req) ==
  /\ phase = "running"
  /\ req.method \in handlers
  /\ calls[i].pc = "idle"
  /\ \A j \in 1..(i - 1) : calls[j].pc # "idle"
  /\ LET c == [IdleCall EXCEPT !.method = req.method, !.name = req.name, !.args = req.args]
     IN IF alreadyConnected(connection)
        THEN /\ calls' = [calls EXCEPT ![i] = [c EXCEPT !.pc = "connected"]]
             /\ UNCHANGED <<connection, connections>>
        ELSE /\ createConnection
             /\ calls' = [calls EXCEPT ![i] = [c EXCEPT !.pc = "awaitConnect", !.attempts = 1,
                                                         !.conn = Len(connections) + 1]]
  /\ UNCHANGED <<env, phase, config, handlers>>

\* The handler of CallToolRequestSchema is called with one of the requests.
CallTool(i, requests) == \E req \in requests : Receive(i, req)

\* The handler of ReadResourceRequestSchema is called with one of the requests.
ReadResource(i, requests) == \E req \in requests : Receive(i, req)

\* A list request arrives and its handler, which awaits nothing, returns.
List(i, method, list) ==
  /\ phase = "running"
  /\ method \in handlers
  /\ calls[i].pc = "idle"
  /\ \A j \in 1..(i - 1) : calls[j].pc # "idle"
  /\ calls' = [calls EXCEPT ![i] =
       [IdleCall EXCEPT !.method = method, !.pc = "done", !.response = Listing(list)]]
  /\ UNCHANGED <<env, phase, config, handlers, connection, connections>>

\* The handler of ListResourcesRequestSchema.
ListResources(i) == List(i, "resources/list", resourceList)

\* The handler of ListToolsRequestSchema.
ListTools(i) == List(i, "tools/list", toolList)

\* The driver calls the callback of connect: connect() returns or throws, and
\* its caller goes on to its next await or to its catch block.
ConnectCallback(i) ==
  /\ calls[i].pc \in {"awaitConnect", "execConnect"}
  /\ \E err \in ConnectErrors :
       LET c == calls[i]
           objects == [connections EXCEPT ![c.conn].state =
                         IF err = Undefined THEN "connected" ELSE "failed"]
       IN /\ connections' = objects
          /\ calls' = [calls EXCEPT ![i] =
               IF err # Undefined
               THEN [c EXCEPT !.pc = "done", !.response = catch(c.method, err)]
               ELSE IF c.pc = "awaitConnect"
                    THEN [c EXCEPT !.pc = "connected"]
                    ELSE submit(c, c.sqlText, connection, objects)]
  /\ UNCHANGED <<env, phase, config, handlers, connection>>

\* After `await this.connect()`: the switch (or the ifs), and executeQuery up
\* to its await.
Dispatch(i) ==
  /\ calls[i].pc = "connected"
  /\ LET c == calls[i]
         r == route(c)
     IN IF r.throws
        THEN /\ calls' = [calls EXCEPT ![i] =
                  [c EXCEPT !.pc = "done", !.response = catch(c.method, r.message)]]
             /\ UNCHANGED <<connection, connections>>
        ELSE IF notConnected(connection) /\ ~alreadyConnected(connection)
             THEN /\ createConnection
                  /\ calls' = [calls EXCEPT ![i] =
                       [c EXCEPT !.pc = "execConnect", !.sqlText = r.sqlText,
                                 !.attempts = @ + 1, !.conn = Len(connections) + 1]]
             ELSE /\ calls' = [calls EXCEPT ![i] = submit(c, r.sqlText, connection, connections)]
                  /\ UNCHANGED <<connection, connections>>
  /\ UNCHANGED <<env, phase, config, handlers>>

\* The driver calls the complete callback of execute: executeQuery resolves
\* or rejects, and the handler returns the rows as text or throws.
ExecuteCallback(i, completions) ==
  /\ calls[i].pc = "awaitExec"
  /\ \E o \in completions :
       LET c == [calls[i] EXCEPT !.driverErr = o.err, !.driverRows = o.rows]
           p == complete(o)
       IN calls' = [calls EXCEPT ![i] =
            IF ~p.settled
            THEN [c EXCEPT !.pc = "pending"]
            ELSE IF p.rejected
                 THEN [c EXCEPT !.pc = "done", !.response = catch(c.method, p.err)]
                 ELSE [c EXCEPT !.pc = "done", !.response = Result(p.rows)]]
  /\ UNCHANGED <<env, phase, config, handlers, connection, connections>>

\* The response or the error is handed to the transport.
Respond(i) ==
  /\ calls[i].pc = "done"
  /\ calls' = [calls EXCEPT ![i] = IdleCall]
  /\ UNCHANGED <<env, phase, config, handlers, connection, connections>>

\* What the handlers and the driver do once the requests are in.
Progress(completions) ==
  \/ \E i \in 1..MaxCalls : ConnectCallback(i)
  \/ \E i \in 1..MaxCalls : Dispatch(i)
  \/ \E i \in 1..MaxCalls : ExecuteCallback(i, completions)
  \/ \E i \in 1..MaxCalls : Respond(i)

\* Clients that send requests while earlier ones are being handled.
Next ==
  \/ Constructor
  \/ Run
  \/ \E i \in 1..MaxCalls : CallTool(i, ConcurrentToolRequests)
  \/ \E i \in 1..MaxCalls : ReadResource(i, ConcurrentResourceRequests)
  \/ \E i \in 1..MaxCalls : ListResources(i)
  \/ \E i \in 1..MaxCalls : ListTools(i)
  \/ Progress(ConcurrentCompletions)

Spec == Init /\ [][Next]_vars

\* The driver calls every callback it was given, and the event loop runs every
\* handler whose await is over: the next step of the call in slot i, of which
\* at most one of the three is enabled.
Advance(i) ==
  \/ ConnectCallback(i)
  \/ Dispatch(i)
  \/ ExecuteCallback(i, ConcurrentCompletions)

Fairness == \A i \in 1..MaxCalls : WF_vars(Advance(i))

\* The requests tried under fairness: one that is executed and one that is
\* rejected, and a read of a resource.
FairToolRequests ==
  {ToolRequest(S_list_databases, NoArgs),
   ToolRequest(S_read_query, [NoArgs EXCEPT !.query = Q_delete])}

FairResourceRequests == {ResourceRequest(URI_tables)}

\* Clients that send requests while earlier ones are being handled, as in Next.
NextFair ==
  \/ Constructor
  \/ Run
  \/ \E i \in 1..MaxCalls : CallTool(i, FairToolRequests)
  \/ \E i \in 1..MaxCalls : ReadResource(i, FairResourceRequests)
  \/ Progress(ConcurrentCompletions)

FairSpec == Init /\ [][NextFair]_vars /\ Fairness

\* No request is being handled.
Quiet == \A i \in 1..MaxCalls : calls[i].pc = "idle"

\* A client that waits for the answer before it sends the next request, and
\* sends any request with any arguments.
NextSequential ==
  \/ Constructor
  \/ Run
  \/ Quiet /\ CallTool(1, ToolRequests)
  \/ Quiet /\ ReadResource(1, ResourceRequests)
  \/ Quiet /\ ListResources(1)
  \/ Quiet /\ ListTools(1)
  \/ Progress(Completions)

SpecSequential == Init /\ [][NextSequential]_vars

(***************************************************************************)
(* Properties.                                                             *)
(***************************************************************************)
Slots == 1..MaxCalls

\* s has sub as a substring.
Contains(s, sub) ==
  \E k \in 0..(Len(s) - Len(sub)) : SubSeq(s, k + 1, k + Len(sub)) = sub

\* The text starts, after its leading white space, with the letters of SELECT
\* in either case.
StartsWithSelectAnyCase(q) ==
  \E a \in 0..Len(q) :
    /\ \A k \in 1..a : q[k] \in WhiteSpace
    /\ Len(q) >= a + 6
    /\ \A k \in 1..6 : q[a + k] \in {S_SELECT[k], S_select[k]}

KnownTools ==
  {S_read_query, S_list_databases, S_list_schemas, S_list_tables, S_describe_table}

KnownResources == {URI_databases, URI_schemas, URI_tables}

IsTool(c, name) == c.method = "tools/call" /\ c.name = name

\* A read_query call with a text that does not start with SELECT.
NonSelectReadQuery(c) ==
  /\ IsTool(c, S_read_query)
  /\ c.args.query # Undefined
  /\ ~StartsWithSelectAnyCase(c.args.query)

\* A read_query call with a text that starts with SELECT.
SelectReadQuery(c) ==
  /\ IsTool(c, S_read_query)
  /\ c.args.query # Undefined
  /\ StartsWithSelectAnyCase(c.args.query)

UnknownToolCall(c) == c.method = "tools/call" /\ c.name \notin KnownTools

UnknownResourceRead(c) == c.method = "resources/read" /\ c.name \notin KnownResources

\* C1: whatever the requests and their interleaving, at most one Connection
\* object is ever created and told to connect, it is the one in the slot from
\* then on, and every statement a call submits goes to that object.
OneConnection ==
  /\ Len(connections) <= 1
  /\ connection = Len(connections)
  /\ \A i \in Slots :
       /\ calls[i].attempts <= 1
       /\ \A k \in 1..Len(calls[i].submitted) :
            calls[i].submitted[k].conn = 1 /\ connection = 1

\* C1, its case: a later call has submitted its SQL through the connection
\* while the call that created it still waits for the connect to end.
OneConnectionWitness ==
  \E i, j \in Slots :
    /\ calls[i].pc = "awaitConnect"
    /\ calls[j].attempts = 0
    /\ calls[j].submitted # <<>>
    /\ Len(connections) = 1

\* C2: an object whose connect has failed is not in the connection slot, so
\* that the next call finds the slot empty and connects afresh.
FailedConnectLeavesSlotEmpty ==
  \A k \in 1..Len(connections) :
    connections[k].state = "failed" => connection # k

\* C3: a read_query call whose text does not start with SELECT has no
\* connection created on its behalf.
RejectedReadQueryLeavesConnection ==
  \A i \in Slots : NonSelectReadQuery(calls[i]) => calls[i].attempts = 0

\* C4: a call that is rejected (a read_query whose text does not start with
\* SELECT, a tool that is not one of the five) submits no statement to the
\* driver and never waits for one, whatever the state of the connection.
RejectedNeverReachesExecutor ==
  \A i \in Slots :
    (NonSelectReadQuery(calls[i]) \/ UnknownToolCall(calls[i]))
      => /\ calls[i].submitted = <<>>
         /\ calls[i].pc \notin {"execConnect", "awaitExec"}
         /\ calls[i].response.kind # "result"

\* C4, its case: both kinds of rejected call have ended with an error while
\* the slot holds a connected connection.
RejectedNeverReachesExecutorWitness ==
  /\ connection # NULL
  /\ connections[connection].state = "connected"
  /\ \E i, j \in Slots :
       /\ NonSelectReadQuery(calls[i]) /\ calls[i].pc = "done"
       /\ UnknownToolCall(calls[j]) /\ calls[j].pc = "done"

\* C5: a read_query call whose text starts with SELECT in any letter case,
\* leading white space ignored, is not rejected by the check, and what it
\* submits to the executor is the caller's text, unchanged: once it is past
\* the check it has submitted exactly that one statement.
SelectForwardedVerbatim ==
  \A i \in Slots :
    SelectReadQuery(calls[i])
      => /\ calls[i].response.message # MSG_ToolFailed_ \o MSG_OnlySelect
         /\ \A k \in 1..Len(calls[i].submitted) :
              calls[i].submitted[k].sqlText = calls[i].args.query
         /\ (calls[i].pc = "awaitExec" \/ (calls[i].pc = "done" /\ calls[i].attempts = 0))
              => Len(calls[i].submitted) = 1

\* C5, its case: a text in mixed case with white space around it has been
\* executed and its rows returned.
SelectForwardedVerbatimWitness ==
  \E i \in Slots :
    /\ SelectReadQuery(calls[i])
    /\ calls[i].args.query # trim(calls[i].args.query)
    /\ calls[i].args.query # toUpperCase(calls[i].args.query)
    /\ calls[i].response.kind = "result"

\* C6: a call of an unknown tool ends with a MethodNotFound error and a read
\* of an unknown resource with an InvalidRequest error (calls that had to
\* connect first, and may have failed at that, left aside).
RoutingErrorsKeepClass ==
  \A i \in Slots :
    /\ (UnknownToolCall(calls[i]) /\ calls[i].pc = "done" /\ calls[i].attempts = 0)
         => calls[i].response.code = "MethodNotFound"
    /\ (UnknownResourceRead(calls[i]) /\ calls[i].pc = "done" /\ calls[i].attempts = 0)
         => calls[i].response.code = "InvalidRequest"

\* C7: when the driver completes a call's statement with an error, the call
\* ends with an InternalError whose message contains the driver's message, no
\* rows are in the response, and the connection slot and the connection are
\* as they were.
DriverErrorSurfaced ==
  [][\A i \in Slots :
       (calls[i].pc = "awaitExec" /\ calls'[i].pc = "done" /\ calls'[i].driverErr # Undefined)
         => /\ calls'[i].response.kind = "error"
            /\ calls'[i].response.code = "InternalError"
            /\ Contains(calls'[i].response.message, calls'[i].driverErr)
            /\ calls'[i].response.text = <<>>
            /\ connection' = connection
            /\ connections' = connections]_vars

\* C7, its case: a tool call and a resource read have both ended on a driver
\* error, with a connection in the slot.
DriverErrorSurfacedWitness ==
  /\ connection # NULL
  /\ \E i, j \in Slots :
       /\ calls[i].method = "tools/call" /\ calls[i].pc = "done"
       /\ calls[i].driverErr = ERR_Sql
       /\ calls[j].method = "resources/read" /\ calls[j].pc = "done"
       /\ calls[j].driverErr = ERR_Sql

\* A mandatory variable that is not set or is the empty string.
Missing(v) == v = Undefined \/ v = <<>>

\* One of account, username (either variable), password is missing.
MandatoryMissing ==
  \/ Missing(env.SNOWFLAKE_ACCOUNT)
  \/ Missing(env.SNOWFLAKE_USER) /\ Missing(env.SNOWFLAKE_USERNAME)
  \/ Missing(env.SNOWFLAKE_PASSWORD)

\* C8: when a mandatory configuration field is missing or empty, no handler
\* is ever registered, the transport is never started, no request is ever
\* handled and no connection is ever created.
NoServiceWithoutConfig ==
  MandatoryMissing
    => /\ handlers = {}
       /\ phase \in {"start", "crashed"}
       /\ config = NoConfig
       /\ \A i \in Slots : calls[i].pc = "idle"
       /\ connection = NULL
       /\ connections = <<>>

\* C8, its case: the constructor has thrown on a missing field.
NoServiceWithoutConfigWitness == MandatoryMissing /\ phase = "crashed"

\* The statement list_tables is to submit, by which arguments count as given.
ListTablesExpected(database, schema, givenDatabase, givenSchema) ==
  IF givenDatabase /\ givenSchema THEN S_SHOW_TABLES_IN_ \o database \o S_dot \o schema
  ELSE IF givenSchema THEN S_SHOW_TABLES_IN_SCHEMA_ \o schema
  ELSE IF givenDatabase THEN S_SHOW_TABLES_IN_DATABASE_ \o database
  ELSE S_SHOW_TABLES

\* The statements the call has submitted are exactly the one expected, once
\* it has reached the executor.
SubmitsExactly(c, sqlText) ==
  /\ \A k \in 1..Len(c.submitted) : c.submitted[k].sqlText = sqlText
  /\ Len(c.submitted) <= 1
  /\ c.pc = "awaitExec" => Len(c.submitted) = 1

\* C9 as stated: the statement of list_tables follows from which of database
\* and schema are present in the arguments.
ListTablesByPresence ==
  \A i \in Slots :
    IsTool(calls[i], S_list_tables)
      => SubmitsExactly(calls[i],
           ListTablesExpected(calls[i].args.database, calls[i].args.schema,
                              calls[i].args.database # Undefined,
                              calls[i].args.schema # Undefined))

\* C9 as amended: the statement of list_tables follows from which of database
\* and schema are present and not the empty string; the values are put in
\* unchanged.
ListTablesByNonEmpty ==
  \A i \in Slots :
    IsTool(calls[i], S_list_tables)
      => SubmitsExactly(calls[i],
           ListTablesExpected(calls[i].args.database, calls[i].args.schema,
                              ~Missing(calls[i].args.database),
                              ~Missing(calls[i].args.schema)))

\* C9, its case: list_tables with both arguments has submitted its statement.
ListTablesByNonEmptyWitness ==
  \E i \in Slots :
    /\ IsTool(calls[i], S_list_tables)
    /\ calls[i].args.database = V_A
    /\ calls[i].args.schema = V_B
    /\ calls[i].submitted # <<>>
    /\ calls[i].submitted[1].sqlText = S_SHOW_TABLES_IN_ \o V_A \o S_dot \o V_B

\* The statement list_schemas is to submit.
ListSchemasExpected(database, givenDatabase) ==
  IF givenDatabase THEN S_SHOW_SCHEMAS_IN_DATABASE_ \o database ELSE S_SHOW_SCHEMAS

\* C10 as stated: list_schemas submits SHOW SCHEMAS without a database
\* argument and SHOW SCHEMAS IN DATABASE {database} with one.
ListSchemasByPresence ==
  \A i \in Slots :
    IsTool(calls[i], S_list_schemas)
      => SubmitsExactly(calls[i],
           ListSchemasExpected(calls[i].args.database, calls[i].args.database # Undefined))

\* C10 as amended: list_schemas submits SHOW SCHEMAS without a database
\* argument or with an empty one, and SHOW SCHEMAS IN DATABASE {database},
\* the value unchanged, with a database argument that is not empty.
ListSchemasByNonEmpty ==
  \A i \in Slots :
    IsTool(calls[i], S_list_schemas)
      => SubmitsExactly(calls[i],
           ListSchemasExpected(calls[i].args.database, ~Missing(calls[i].args.database)))

\* C10, its case: list_schemas with a database has submitted its statement.
ListSchemasByNonEmptyWitness ==
  \E i \in Slots :
    /\ IsTool(calls[i], S_list_schemas)
    /\ calls[i].args.database = V_A
    /\ calls[i].submitted # <<>>
    /\ calls[i].submitted[1].sqlText = S_SHOW_SCHEMAS_IN_DATABASE_ \o V_A

\* C11: describe_table with a table name submits exactly DESCRIBE TABLE
\* followed by that name, unchanged, and nothing else.
DescribeTableVerbatim ==
  \A i \in Slots :
    (IsTool(calls[i], S_describe_table) /\ calls[i].args.table_name # Undefined)
      => SubmitsExactly(calls[i], S_DESCRIBE_TABLE_ \o calls[i].args.table_name)

\* C11, its case: describe_table of a dotted name has submitted its statement.
DescribeTableVerbatimWitness ==
  \E i \in Slots :
    /\ IsTool(calls[i], S_describe_table)
    /\ calls[i].args.table_name = V_DB_SCH_TBL
    /\ Contains(calls[i].args.table_name, S_dot)
    /\ calls[i].pc = "awaitExec"
    /\ Len(calls[i].submitted) = 1

\* The statement of each of the three resources.
ResourceStatement(uri) ==
  IF uri = URI_databases THEN S_SHOW_DATABASES
  ELSE IF uri = URI_schemas THEN S_SHOW_SCHEMAS
  ELSE S_SHOW_TABLES

\* C12: a read of one of the three resources submits exactly the statement of
\* that resource, one per read, whatever else the request carries.
ResourceStatementsFixed ==
  \A i \in Slots :
    (calls[i].method = "resources/read" /\ calls[i].name \in KnownResources)
      => SubmitsExactly(calls[i], ResourceStatement(calls[i].name))

\* C12, its case: a read of snowflake://tables that carries a database and a
\* schema has submitted SHOW TABLES.
ResourceStatementsFixedWitness ==
  \E i \in Slots :
    /\ calls[i].method = "resources/read"
    /\ calls[i].name = URI_tables
    /\ calls[i].args.database = V_A
    /\ calls[i].args.schema = V_B
    /\ calls[i].submitted = <<[sqlText |-> S_SHOW_TABLES, conn |-> 1, state |-> "connected"]>>

\* C13: a statement the driver has completed has one of two outcomes: with no
\* err, the call returns all the rows the driver gave (none when it gave
\* none) and no error; with an err, the call fails with the driver's message
\* and returns no rows, whatever rows came with the err.  No statement is left
\* without an outcome.
RowsOrError ==
  \A i \in Slots :
    /\ calls[i].pc # "pending"
    /\ (calls[i].pc = "done" /\ calls[i].submitted # <<>>)
         => IF calls[i].driverErr = Undefined
            THEN /\ calls[i].response.kind = "result"
                 /\ calls[i].response.message = <<>>
                 /\ calls[i].response.text =
                      JSONstringify(IF calls[i].driverRows = Undefined
                                    THEN <<>> ELSE calls[i].driverRows)
            ELSE /\ calls[i].response.kind = "error"
                 /\ calls[i].response.text = <<>>
                 /\ Contains(calls[i].response.message, calls[i].driverErr)

\* C13, its case: the driver has given an err together with two rows.
RowsOrErrorWitness ==
  \E i \in Slots :
    /\ calls[i].pc = "done"
    /\ calls[i].driverErr = ERR_Sql
    /\ calls[i].driverRows = <<"row", "row">>
    /\ calls[i].response.kind = "error"

\* C14: every statement is submitted to a connection whose connect has
\* succeeded, never to one still connecting or one whose connect has failed.
SubmittedOnEstablished ==
  \A i \in Slots :
    \A k \in 1..Len(calls[i].submitted) : calls[i].submitted[k].state = "connected"

\* The connect this call started has failed.
OwnConnectFailed(c) ==
  /\ c.conn # NULL
  /\ connections[c.conn].state = "failed"

\* The call has met one of the failures: of its connect, of the check of
\* read_query, of the routing, of the driver.
HasFailed(c) ==
  \/ OwnConnectFailed(c)
  \/ NonSelectReadQuery(c)
  \/ UnknownToolCall(c)
  \/ UnknownResourceRead(c)
  \/ c.driverErr # Undefined

\* C15: a call starts at most one connect and submits at most one statement,
\* and a call that has met a failure ends with an error that has a code and
\* a message, never with a result.
NoRetryNoSwallow ==
  \A i \in Slots :
    /\ calls[i].attempts <= 1
    /\ Len(calls[i].submitted) <= 1
    /\ (calls[i].pc = "done" /\ HasFailed(calls[i]))
         => /\ calls[i].response.kind = "error"
            /\ calls[i].response.code # ""
            /\ calls[i].response.message # <<>>
            /\ calls[i].response.text = <<>>

\* C15, its case: one call has ended on the failure of its connect and
\* another on an error of the driver.
NoRetryNoSwallowWitness ==
  \E i, j \in Slots :
    /\ calls[i].pc = "done" /\ OwnConnectFailed(calls[i])
    /\ calls[j].pc = "done" /\ calls[j].driverErr # Undefined
    /\ calls[j].attempts = 0

\* C16: a read_query without query and a describe_table without table_name
\* submit no statement and end with an error.
MissingArgumentRejected ==
  \A i \in Slots :
    (\/ IsTool(calls[i], S_read_query) /\ calls[i].args.query = Undefined
     \/ IsTool(calls[i], S_describe_table) /\ calls[i].args.table_name = Undefined)
      => /\ calls[i].submitted = <<>>
         /\ calls[i].pc = "done" => calls[i].response.kind = "error"

\* C17: when the driver calls every callback it was given, every call that
\* has been received ends, with a result or an error.
EveryCallCompletes ==
  \A i \in Slots : (calls[i].pc \notin {"idle", "done"}) ~> (calls[i].pc = "done")

\* C17, its case: two calls at the same time have ended, one on the failure
\* of its connect and one that submitted its statement after that failure.
EveryCallCompletesWitness ==
  \E i, j \in Slots :
    /\ calls[i].pc = "done" /\ OwnConnectFailed(calls[i])
    /\ calls[j].pc = "done" /\ calls[j].attempts = 0
    /\ calls[j].submitted # <<>>
    /\ calls[j].submitted[1].state = "failed"

\* The text begins with one of the prefixes of the statements that only read.
ReadOnlyPrefix(sqlText) ==
  \/ StartsWithSelectAnyCase(sqlText)
  \/ \E p \in {S_SHOW_DATABASES, S_SHOW_SCHEMAS, S_SHOW_TABLES, S_DESCRIBE_TABLE_} :
       /\ Len(sqlText) >= Len(p)
       /\ \A k \in 1..Len(p) : sqlText[k] = p[k]

\* C18: every statement submitted to the driver, by any tool or resource,
\* begins with SELECT (in any case, after leading white space), SHOW
\* DATABASES, SHOW SCHEMAS, SHOW TABLES or DESCRIBE TABLE.
OnlyReadOnlyPrefixes ==
  \A i \in Slots :
    \A k \in 1..Len(calls[i].submitted) : ReadOnlyPrefix(calls[i].submitted[k].sqlText)

\* C18, its case: a read_query text with white space before a SELECT in mixed
\* case has been submitted as it came.
OnlyReadOnlyPrefixesWitness ==
  \E i \in Slots :
    /\ IsTool(calls[i], S_read_query)
    /\ calls[i].submitted # <<>>
    /\ calls[i].submitted[1].sqlText = Q_SeLeCt_ws
    /\ ~startsWith(calls[i].submitted[1].sqlText, S_SELECT)

IsListing(c) == c.method \in {"tools/list", "resources/list"}

\* C19: a list-tools or list-resources request is answered in one step that
\* leaves the connection slot and the connections as they are, starts no
\* connect and submits nothing, and the answer is the five tools or the three
\* resources, whatever the state of the connection.
ListingsTouchNothing ==
  [][\A i \in Slots :
       (calls[i].pc = "idle" /\ IsListing(calls'[i]))
         => /\ connection' = connection
            /\ connections' = connections
            /\ calls'[i].pc = "done"
            /\ calls'[i].attempts = 0
            /\ calls'[i].submitted = <<>>
            /\ calls'[i].response.kind = "result"
            /\ LET list == calls'[i].response.list
               IN IF calls'[i].method = "tools/list"
                  THEN /\ Len(list) = 5
                       /\ {list[k].name : k \in 1..Len(list)} = KnownTools
                  ELSE /\ Len(list) = 3
                       /\ {list[k].uri : k \in 1..Len(list)} = KnownResources]_vars

\* C19, its case: both lists have been returned while the slot holds a
\* connection whose connect has failed.
ListingsTouchNothingWitness ==
  /\ connection # NULL
  /\ connections[connection].state = "failed"
  /\ \E i, j \in Slots :
       /\ calls[i].method = "tools/list" /\ calls[i].pc = "done"
       /\ calls[j].method = "resources/list" /\ calls[j].pc = "done"

====
